---- MODULE Spec2Model ----
(***************************************************************************)
(* A model of remix.py: the script that lists the packages installed in    *)
(* an old container image, writes a Dockerfile installing them on a new    *)
(* base image, and builds it.  Text is modelled by TLA+ strings and the    *)
(* Python string operations the script uses (in, splitlines, split, join,  *)
(* strip) by operators that compute character by character.                *)
(***************************************************************************)
EXTENDS Integers, Sequences, FiniteSets, TLC

\* ------------------------------------------------------------------ text

\* s[i] as a one-character string
Char(s, i) == SubSeq(s, i, i)

\* Python `sub in s`
Contains(s, sub) ==
    \E i \in 1..(Len(s) - Len(sub) + 1) : SubSeq(s, i, i + Len(sub) - 1) = sub

\* the least index >= i of s holding a character of cs, 0 when there is none
FindAny(s, cs, i) ==
    IF \E j \in i..Len(s) : Char(s, j) \in cs
      THEN CHOOSE j \in i..Len(s) :
              Char(s, j) \in cs /\ \A k \in i..(j - 1) : Char(s, k) \notin cs
      ELSE 0

\* the line boundaries of str.splitlines that occur in a container's output
LineBreaks == {"\n", "\r"}

\* the characters str.split() and str.strip() treat as whitespace
Whitespace == {" ", "\t", "\n", "\r"}

\* Python s.splitlines(): no line for the text after a final line break
RECURSIVE splitlines(_)
splitlines(s) ==
    IF s = "" THEN <<>>
    ELSE LET k == FindAny(s, LineBreaks, 1) IN
         IF k = 0 THEN <<s>>
         ELSE LET crlf == Char(s, k) = "\r" /\ k < Len(s) /\ Char(s, k + 1) = "\n"
                  rest == SubSeq(s, k + (IF crlf THEN 2 ELSE 1), Len(s))
              IN  <<SubSeq(s, 1, k - 1)>> \o splitlines(rest)

\* Python line.split(sep)[0]: the text before the first sep, or all of it
split_first(line, sep) ==
    LET k == FindAny(line, {sep}, 1) IN
    IF k = 0 THEN line ELSE SubSeq(line, 1, k - 1)

\* the least index >= i of s holding a non-whitespace character, 0 when none
FindNonSpace(s, i) ==
    IF \E j \in i..Len(s) : Char(s, j) \notin Whitespace
      THEN CHOOSE j \in i..Len(s) :
              Char(s, j) \notin Whitespace /\ \A k \in i..(j - 1) : Char(s, k) \in Whitespace
      ELSE 0

\* the greatest index <= i of s holding a non-whitespace character, 0 when none
FindLastNonSpace(s, i) ==
    IF \E j \in 1..i : Char(s, j) \notin Whitespace
      THEN CHOOSE j \in 1..i :
              Char(s, j) \notin Whitespace /\ \A k \in (j + 1)..i : Char(s, k) \in Whitespace
      ELSE 0

\* Python line.split()[0], for a line that holds a non-whitespace character
first_token(line) ==
    LET b == FindNonSpace(line, 1)
        e == FindAny(line, Whitespace, b)
    IN  SubSeq(line, b, IF e = 0 THEN Len(line) ELSE e - 1)

\* Python s.strip()
strip(s) ==
    LET b == FindNonSpace(s, 1) IN
    IF b = 0 THEN "" ELSE SubSeq(s, b, FindLastNonSpace(s, Len(s)))

\* Python sep.join(items)
RECURSIVE join(_, _)
join(sep, items) ==
    IF items = <<>> THEN ""
    ELSE IF Len(items) = 1 THEN items[1]
    ELSE items[1] \o sep \o join(sep, Tail(items))

\* ------------------------------------------------- the world of a run

\* how many lines a probe's listing has at most
MaxLines == 3

\* the lines a probe prints: package records of `apt list --installed`
\* (name/repo version arch), of `yum list installed` (name.arch version repo),
\* and lines that are no package record
ProbeLines == <<
    [kind |-> "apt",   name |-> "curl", text |-> "curl/stable 7.68 amd64"],
    [kind |-> "apt",   name |-> "apt",  text |-> "apt/now 2.0.9 amd64 [installed,local]"],
    [kind |-> "yum",   name |-> "bash", text |-> "bash.x86_64 5.0 installed"],
    [kind |-> "yum",   name |-> "yum",  text |-> "yum.noarch 3.4.3 @base"],
    [kind |-> "other", name |-> "",     text |-> "not-a-package-line"],
    [kind |-> "other", name |-> "",     text |-> "WARNING: apt does not have a stable CLI interface."] >>

\* the listings a probe can print: up to MaxLines lines, by their index
Listings == UNION {[1..n -> 1..Len(ProbeLines)] : n \in 0..MaxLines}

\* the text of a listing: every line ended by a line feed
RECURSIVE Render(_)
Render(ls) ==
    IF ls = <<>> THEN "" ELSE ProbeLines[Head(ls)].text \o "\n" \o Render(Tail(ls))

\* the command lines: which options are given (each required option has one
\* value here, --new-base-image two)
Options   == {"--old-image", "--new-base-image", "--new-image", "-h"}
Required  == {"--old-image", "--new-base-image", "--new-image"}
OldImage  == "app:1.0"
BaseNames == {"debian:12", "ubuntu:22.04"}
NewTag    == "app:2.0"

\* the log records an engine attaches to a build: `stream` records, and
\* records without one (pull progress, the error detail)
BuildLogs == {
    <<>>,
    << [stream |-> "Step 1/2 : FROM debian:12\n"] >>,
    << [status |-> "Pulling from library/debian"],
       [stream |-> "Step 1/2 : FROM debian:12\n"],
       [stream |-> " ---> Running in 5d0da3dc9764\n"] >>,
    << [stream |-> "Step 2/2 : RUN apt-get update\n"],
       [error  |-> "The command returned a non-zero code: 100"] >> }

\* Python's None, and a value that is set
None == <<>>
Some(v) == <<v>>
Get(o) == o[1]

VARIABLES
    pc,                 \* the statement the script is at, "exited" at the end
    argv,               \* the options on the command line
    args,               \* the parsed arguments (line 110)
    client,             \* the engine connection (line 113)
    old_image,          \* the resolved image handle (line 116)
    containers,         \* the engine's containers made by this run: their states
    container,          \* get_installed_packages' handle: an index of containers, 0 unbound
    calls,              \* the engine operations invoked, in order, with their outcome
    listing,            \* what the probe printed inside the container, by line
    output,             \* the bytes exec_run returned (line 44)
    installed_packages, \* the inventory (lines 53-60, 119)
    dockerfile,         \* the recipe (line 122)
    build_context,      \* what the build primitive was given: the Dockerfile written and the tag
    new_image,          \* the built image handle (lines 90, 125)
    engine_log,         \* the log records the engine gave with the build's result
    stdout,             \* the lines printed
    exit_code           \* the process's exit status, None while it runs

vars == <<pc, argv, args, client, old_image, containers, container, calls, listing,
          output, installed_packages, dockerfile, build_context, new_image,
          engine_log, stdout, exit_code>>

Init ==
    /\ pc = "parse_args"
    /\ argv \in SUBSET Options
    /\ args = None
    /\ client = None
    /\ old_image = None
    /\ containers = <<>>
    /\ container = 0
    /\ calls = <<>>
    /\ listing = <<>>
    /\ output = None
    /\ installed_packages = None
    /\ dockerfile = None
    /\ build_context = None
    /\ new_image = None
    /\ engine_log = None
    /\ stdout = <<>>
    /\ exit_code = None

\* sys.exit(code), and the interpreter's end on an uncaught exception (code 1)
exit(code) ==
    /\ pc' = "exited"
    /\ exit_code' = Some(code)

\* one engine operation invoked, with how it ended: "ok", or the exception raised
Invoke(op, result) == calls' = Append(calls, [op |-> op, result |-> result])

\* an engine operation that returns or raises an engine error
Call(op, ok) == Invoke(op, IF ok THEN "ok" ELSE "APIError")

\* parser.parse_args(): -h prints the help and exits 0; a required option
\* missing is a usage error, exit status 2
parse_args ==
    /\ pc = "parse_args"
    /\ IF "-h" \in argv THEN exit(0) /\ UNCHANGED args
       ELSE IF ~(Required \subseteq argv) THEN exit(2) /\ UNCHANGED args
       ELSE \E base \in BaseNames :
               /\ args' = Some([old_image |-> OldImage, new_base_image |-> base,
                                new_image |-> NewTag])
               /\ pc' = "from_env"
               /\ UNCHANGED exit_code
    /\ UNCHANGED <<engine_log, argv, client, old_image, containers, container, calls, listing,
                   output, installed_packages, dockerfile, build_context, new_image,
                   stdout>>

\* client = docker.from_env(): an exception is uncaught
from_env ==
    /\ pc = "from_env"
    /\ \E ok \in BOOLEAN :
          IF ok THEN client' = Some("client") /\ pc' = "images_get" /\ UNCHANGED exit_code
          ELSE exit(1) /\ UNCHANGED client
    /\ UNCHANGED <<engine_log, argv, args, old_image, containers, container, calls, listing,
                   output, installed_packages, dockerfile, build_context, new_image,
                   stdout>>

\* old_image = client.images.get(args.old_image): an exception is uncaught
images_get ==
    /\ pc = "images_get"
    /\ \E ok \in BOOLEAN :
          /\ Call("images.get", ok)
          /\ IF ok THEN old_image' = Some(Get(args).old_image) /\ pc' = "containers_create"
                        /\ UNCHANGED exit_code
             ELSE exit(1) /\ UNCHANGED old_image
    /\ UNCHANGED <<engine_log, argv, args, client, containers, container, listing, output,
                   installed_packages, dockerfile, build_context, new_image, stdout>>

\* extraction_failed ending the process with the usage status
extraction_failed_exit2(e) ==
    /\ stdout' = stdout \o <<"Exception: " \o e,
                             "Failed to list installed packages in the old image:">>
    /\ exit(2)

\* the except clause of get_installed_packages (lines 47-51): print the
\* exception and the message (the traceback goes to stderr), then sys.exit(1)
extraction_failed(e) ==
    /\ stdout' = stdout \o <<"Exception: " \o e,
                             "Failed to list installed packages in the old image:">>
    /\ exit(1)

\* container = client.containers.create(image.id): an exception is uncaught
containers_create ==
    /\ pc = "containers_create"
    /\ \E ok \in BOOLEAN :
          /\ Call("containers.create", ok)
          /\ IF ok THEN /\ containers' = Append(containers, "created")
                        /\ container' = Len(containers) + 1
                        /\ pc' = "put_archive"
                        /\ UNCHANGED exit_code
             ELSE exit(1) /\ UNCHANGED <<containers, container>>
    /\ UNCHANGED <<engine_log, argv, args, client, old_image, listing, output, installed_packages,
                   dockerfile, build_context, new_image, stdout>>

\* the probe script written, archived and uploaded with container.put_archive,
\* outside the try block: an exception is uncaught
put_archive ==
    /\ pc = "put_archive"
    /\ \E ok \in BOOLEAN :
          /\ Call("put_archive", ok)
          /\ IF ok THEN pc' = "start" /\ UNCHANGED exit_code ELSE exit(1)
    /\ UNCHANGED <<engine_log, argv, args, client, old_image, containers, container, listing,
                   output, installed_packages, dockerfile, build_context, new_image,
                   stdout>>

\* container_start trying again from the creation when the start raises
container_start_retry ==
    /\ pc = "start"
    /\ \E ok \in BOOLEAN :
          /\ Call("start", ok)
          /\ IF ok THEN /\ containers' = [containers EXCEPT ![container] = "running"]
                        /\ pc' = "exec_run"
             ELSE pc' = "containers_create" /\ UNCHANGED containers
    /\ UNCHANGED <<engine_log, argv, args, client, old_image, container, listing, output,
                   installed_packages, dockerfile, build_context, new_image, stdout,
                   exit_code>>

\* container.start(), the first statement of the try block
container_start ==
    /\ pc = "start"
    /\ \E ok \in BOOLEAN :
          /\ Call("start", ok)
          /\ IF ok THEN /\ containers' = [containers EXCEPT ![container] = "running"]
                        /\ pc' = "exec_run"
                        /\ UNCHANGED <<stdout, exit_code>>
             ELSE extraction_failed("start") /\ UNCHANGED containers
    /\ UNCHANGED <<engine_log, argv, args, client, old_image, container, listing, output,
                   installed_packages, dockerfile, build_context, new_image>>

\* exec_run taking an exception of the exec for an empty output
exec_run_swallowed ==
    /\ pc = "exec_run"
    /\ \/ \E ls \in Listings :
             /\ Call("exec_run", TRUE)
             /\ listing' = ls
             /\ output' = Some([text |-> Render(ls), utf8 |-> TRUE])
       \/ /\ Call("exec_run", FALSE)
          /\ listing' = <<>>
          /\ output' = Some([text |-> "", utf8 |-> TRUE])
    /\ pc' = "stop"
    /\ UNCHANGED <<engine_log, argv, args, client, old_image, containers, container,
                   installed_packages, dockerfile, build_context, new_image, stdout,
                   exit_code>>

\* exit_code, output = container.exec_run(script): the probe prints a listing,
\* whose bytes may hold a sequence that is not UTF-8 (utf8 = FALSE; text is then
\* what the other bytes read as; taken for listings of at most one line); the
\* exit status is never read
exec_run ==
    /\ pc = "exec_run"
    /\ \/ \E ls \in Listings, u \in BOOLEAN :
             /\ u \/ Len(ls) <= 1
             /\ Call("exec_run", TRUE)
             /\ listing' = ls
             /\ output' = Some([text |-> Render(ls), utf8 |-> u])
             /\ pc' = "stop"
             /\ UNCHANGED <<stdout, exit_code>>
       \/ /\ Call("exec_run", FALSE)
          /\ extraction_failed("exec_run")
          /\ UNCHANGED <<listing, output>>
    /\ UNCHANGED <<engine_log, argv, args, client, old_image, containers, container,
                   installed_packages, dockerfile, build_context, new_image>>

\* container.stop()
container_stop ==
    /\ pc = "stop"
    /\ \E ok \in BOOLEAN :
          /\ Call("stop", ok)
          /\ IF ok THEN /\ containers' = [containers EXCEPT ![container] = "stopped"]
                        /\ pc' = "remove"
                        /\ UNCHANGED <<stdout, exit_code>>
             ELSE extraction_failed("stop") /\ UNCHANGED containers
    /\ UNCHANGED <<engine_log, argv, args, client, old_image, container, listing, output,
                   installed_packages, dockerfile, build_context, new_image>>

\* container.remove(), the last statement of the try block
container_remove ==
    /\ pc = "remove"
    /\ \E ok \in BOOLEAN :
          /\ Call("remove", ok)
          /\ IF ok THEN /\ containers' = [containers EXCEPT ![container] = "removed"]
                        /\ pc' = "parse_output"
                        /\ UNCHANGED <<stdout, exit_code>>
             ELSE extraction_failed("remove") /\ UNCHANGED containers
    /\ UNCHANGED <<engine_log, argv, args, client, old_image, container, listing, output,
                   installed_packages, dockerfile, build_context, new_image>>

\* parse_packages without the test for a / in the line
parse_packages_unfiltered(text) ==
    LET lines    == splitlines(text)
        HasDot(line)   == Contains(line, ".")
        yum      == SelectSeq(lines, HasDot)
    IN  IF Contains(text, "apt")
          THEN [i \in 1..Len(lines) |-> split_first(lines[i], "/")]
        ELSE IF Contains(text, "yum")
          THEN [i \in 1..Len(yum) |-> first_token(yum[i])]
        ELSE <<>>

\* the inventory parsed from the decoded output (lines 53-60): with the marker
\* apt, the text before the first / of every line holding a /; else with the
\* marker yum, the first token of every line holding a dot; else nothing
parse_packages(text) ==
    LET lines    == splitlines(text)
        HasSlash(line) == Contains(line, "/")
        HasDot(line)   == Contains(line, ".")
        apt      == SelectSeq(lines, HasSlash)
        yum      == SelectSeq(lines, HasDot)
    IN  IF Contains(text, "apt")
          THEN [i \in 1..Len(apt) |-> split_first(apt[i], "/")]
        ELSE IF Contains(text, "yum")
          THEN [i \in 1..Len(yum) |-> first_token(yum[i])]
        ELSE <<>>

\* parse_output ending the process when no package manager is detected
parse_output_strict ==
    /\ pc = "parse_output"
    /\ IF Get(output).utf8 /\ parse_packages(Get(output).text) # <<>>
         THEN /\ installed_packages' = Some(parse_packages(Get(output).text))
              /\ pc' = "generate"
              /\ UNCHANGED exit_code
         ELSE exit(1) /\ UNCHANGED installed_packages
    /\ UNCHANGED <<engine_log, argv, args, client, old_image, containers, container,
                   calls, listing, output, dockerfile, build_context, new_image, stdout>>

\* output.decode('utf-8') and the parse; the inventory is returned and bound
\* (line 119).  A UnicodeDecodeError is uncaught: the statements are outside
\* the try block
parse_output ==
    /\ pc = "parse_output"
    /\ IF Get(output).utf8
         THEN /\ installed_packages' = Some(parse_packages(Get(output).text))
              /\ pc' = "generate"
              /\ UNCHANGED exit_code
         ELSE exit(1) /\ UNCHANGED installed_packages
    /\ UNCHANGED <<engine_log, argv, args, client, old_image, containers, container, calls,
                   listing, output, dockerfile, build_context, new_image, stdout>>

\* the elements of a list from the last to the first
Reversed(items) == [i \in 1..Len(items) |-> items[Len(items) + 1 - i]]

\* the f-string of generate_dockerfile (lines 64-77) around the text of the
\* packages: it opens with a line feed, every line carries the indentation of
\* the source, and the comment lines of the source follow the RUN instruction
recipe_text(base_image, package_text) ==
    "\n"
    \o "    FROM " \o base_image \o "\n"
    \o "\n"
    \o "    RUN apt-get update && \\\n"
    \o "        apt-get install -y \\\n"
    \o "        " \o package_text \o " && \\\n"
    \o "        rm -rf /var/lib/apt/lists/*\n"
    \o "\n"
    \o "    # Configure the application environment (set environment variables, working directory, user permissions, etc.)\n"
    \o "    # ...\n"
    \o "\n"
    \o "    # Define the default command to run when the container is started\n"
    \o "    # ENTRYPOINT or CMD instruction (e.g., CMD [\"python\", \"app.py\"])\n"
    \o "    "

\* generate_dockerfile joining the packages with commas
generate_dockerfile_commas(base_image, packages) ==
    recipe_text(base_image, join(",", packages))

\* generate_dockerfile joining the packages from the last to the first
generate_dockerfile_reversed(base_image, packages) ==
    recipe_text(base_image, join(" ", Reversed(packages)))

\* generate_dockerfile: the packages joined by single spaces in the f-string
generate_dockerfile(base_image, packages) ==
    recipe_text(base_image, join(" ", packages))

\* dockerfile = generate_dockerfile(args.new_base_image, installed_packages)
generate ==
    /\ pc = "generate"
    /\ dockerfile' = Some(generate_dockerfile(Get(args).new_base_image,
                                              Get(installed_packages)))
    /\ pc' = "build"
    /\ UNCHANGED <<engine_log, argv, args, client, old_image, containers, container, calls,
                   listing, output, installed_packages, build_context, new_image,
                   stdout, exit_code>>

\* log.get('stream', '').strip()
log_line(log) == strip(IF "stream" \in DOMAIN log THEN log.stream ELSE "")

\* for log in logs: print(log.get('stream', '').strip())
print_logs(logs) == [i \in 1..Len(logs) |-> log_line(logs[i])]

\* the Dockerfile written to the build context, the progress line printed and
\* client.images.build invoked with the context and the tag (lines 83-90)
invoke_build(result) ==
    /\ pc = "build"
    /\ Invoke("images.build", result)
    /\ build_context' = Some([Dockerfile |-> Get(dockerfile),
                              tag |-> Get(args).new_image])

building(tag) == "Building new container image: " \o tag

\* the build returns the image and its logs, which are printed (lines 90-92, 102)
build_container_image ==
    /\ invoke_build("ok")
    /\ \E build_logs \in BuildLogs :
          /\ engine_log' = Some(build_logs)
          /\ stdout' = stdout \o <<building(Get(args).new_image)>>
                              \o print_logs(build_logs)
    /\ new_image' = Some("image")
    /\ pc' = "finish"
    /\ UNCHANGED <<argv, args, client, old_image, containers, container, listing,
                   output, installed_packages, dockerfile, exit_code>>

\* build_BuildError printing the error without the log it carries
build_BuildError_silent ==
    /\ invoke_build("BuildError")
    /\ \E build_log \in BuildLogs :
          /\ engine_log' = Some(build_log)
          /\ stdout' = stdout \o <<building(Get(args).new_image),
                                   "Error building the new image: BuildError">>
    /\ exit(1)
    /\ UNCHANGED <<argv, args, client, old_image, containers, container, listing,
                   output, installed_packages, dockerfile, new_image>>

\* the build raises docker.errors.BuildError: the error and the logs it
\* carries are printed, then sys.exit(1) (lines 93-97)
build_BuildError ==
    /\ invoke_build("BuildError")
    /\ \E build_log \in BuildLogs :
          /\ engine_log' = Some(build_log)
          /\ stdout' = stdout \o <<building(Get(args).new_image),
                                   "Error building the new image: BuildError">>
                              \o print_logs(build_log)
    /\ exit(1)
    /\ UNCHANGED <<argv, args, client, old_image, containers, container, listing,
                   output, installed_packages, dockerfile, new_image>>

\* the build raises any other exception: a message, then sys.exit(1)
\* (lines 98-100)
build_Exception ==
    /\ invoke_build("APIError")
    /\ stdout' = stdout \o <<building(Get(args).new_image),
        "An unexpected error occurred while building the new image: APIError">>
    /\ UNCHANGED engine_log
    /\ exit(1)
    /\ UNCHANGED <<argv, args, client, old_image, containers, container, listing,
                   output, installed_packages, dockerfile, new_image>>

success(tag) == "New container image '" \o tag \o "' has been built successfully."

\* the last statement (line 127), and the end of the script: exit status 0
finish ==
    /\ pc = "finish"
    /\ stdout' = Append(stdout, success(Get(args).new_image))
    /\ exit(0)
    /\ UNCHANGED <<engine_log, argv, args, client, old_image, containers, container, calls,
                   listing, output, installed_packages, dockerfile, build_context,
                   new_image>>

Next ==
    \/ parse_args
    \/ from_env
    \/ images_get
    \/ containers_create
    \/ put_archive
    \/ container_start
    \/ exec_run
    \/ container_stop
    \/ container_remove
    \/ parse_output
    \/ generate
    \/ build_container_image
    \/ build_BuildError
    \/ build_Exception
    \/ finish

Spec == Init /\ [][Next]_vars

\* ---------------------------------------------------------------- claims

\* how often an engine operation was invoked
Count(op) == Cardinality({i \in 1..Len(calls) : calls[i].op = op})

\* an invocation of op that ended with result
Ended(op, result) == \E i \in 1..Len(calls) : calls[i] = [op |-> op, result |-> result]

\* an invocation of op that raised
Raised(op) == \E i \in 1..Len(calls) : calls[i].op = op /\ calls[i].result # "ok"

\* the extraction call is over: it returned, or the process ended after the
\* container was created
ExtractionOver == container # 0 /\ pc \in {"generate", "build", "finish", "exited"}

\* the number of (possibly overlapping) places where sub occurs in s
Occurrences(s, sub) ==
    Cardinality({i \in 1..(Len(s) - Len(sub) + 1) : SubSeq(s, i, i + Len(sub) - 1) = sub})

Printed(line) == \E i \in 1..Len(stdout) : stdout[i] = line

\* C1 (as claimed): once a container was created, container.remove has been
\* invoked exactly once on it when the extraction call returns or the process
\* ends, whichever of start, exec_run or stop raised (stated for the runs whose
\* upload succeeded, which reach the try block).
C1_RemovedExactlyOnce ==
    ExtractionOver /\ Ended("put_archive", "ok") =>
        Count("remove") = 1 /\ containers[container] = "removed"

\* C2 (as claimed): every run ends with exit code 0 or 1, with 0 exactly when
\* the build returned an image handle, and the success message is printed only
\* with a built image.
C2_ExitZeroIffBuilt ==
    pc = "exited" =>
        /\ exit_code \in {Some(0), Some(1)}
        /\ exit_code = Some(0) <=> new_image # None
        /\ Printed(success(NewTag)) => new_image # None

\* C2 (amended): a run whose command line parses ends with exit code 0 exactly
\* when the build returned an image handle and with 1 otherwise, and prints the
\* success message only with a built image; a run with -h ends with 0 and a
\* run with a required option missing with 2, both before any engine operation.
C2_ExitCodes ==
    pc = "exited" =>
        /\ "-h" \in argv => exit_code = Some(0) /\ calls = <<>> /\ new_image = None
        /\ "-h" \notin argv /\ ~(Required \subseteq argv) =>
              exit_code = Some(2) /\ calls = <<>> /\ new_image = None
        /\ "-h" \notin argv /\ Required \subseteq argv =>
              /\ exit_code \in {Some(0), Some(1)}
              /\ exit_code = Some(0) <=> new_image # None
              /\ new_image # None <=> Ended("images.build", "ok")
        /\ Printed(success(NewTag)) => new_image # None

\* a run that built the image and ended with 0
C2_Witness ==
    /\ pc = "exited"
    /\ exit_code = Some(0)
    /\ Ended("images.build", "ok")
    /\ new_image # None

\* the names of the records of one kind in a listing, in order
RecordNames(ls, kind) ==
    LET OfKind(i) == ProbeLines[i].kind = kind
        idx == SelectSeq(ls, OfKind)
    IN  [k \in 1..Len(idx) |-> ProbeLines[idx[k]].name]

HasKind(ls, kind) == \E k \in 1..Len(ls) : ProbeLines[ls[k]].kind = kind

NoMarker(text) == ~Contains(text, "apt") /\ ~Contains(text, "yum")

\* the listing of end-to-end scenario 1, and the same after apt's warning line
Scenario1 == <<1, 5>>
Scenario1Marked == <<6, 1, 5>>

\* C3 (as claimed): an output with lines name/repo version arch yields the name
\* of each such line, in order, whatever lines without / are among them.
C3_AptRecordNames ==
    installed_packages # None /\ HasKind(listing, "apt") =>
        Get(installed_packages) = RecordNames(listing, "apt")

\* C3 (amended): an output that decodes and holds the substring apt yields the
\* text before the first / of each line holding a /, in order, the other lines
\* skipped; scenario 1's two lines hold no apt and yield the empty inventory,
\* and yield ["curl"] once a line holding apt is among them.
C3_AptMarkedRecordNames ==
    installed_packages # None =>
        /\ Contains(Get(output).text, "apt") =>
              Get(installed_packages) = RecordNames(listing, "apt")
        /\ listing = Scenario1 => Get(installed_packages) = <<>>
        /\ listing = Scenario1Marked => Get(installed_packages) = <<"curl">>

\* two apt records parsed around a line that is none, after the warning
C3_Witness ==
    /\ pc = "generate"
    /\ listing = <<2, 5, 1>>
    /\ installed_packages = Some(<<"apt", "curl">>)

\* C4 (as claimed): an output with lines name.arch version repo yields the name
\* of each such line with the architecture suffix stripped, in order (stated
\* for the outputs that hold the marker yum and not the marker apt).
C4_YumRecordNames ==
    /\ installed_packages # None
    /\ HasKind(listing, "yum")
    /\ Contains(Get(output).text, "yum")
    /\ ~Contains(Get(output).text, "apt")
    => Get(installed_packages) = RecordNames(listing, "yum")

\* the recipe of an empty inventory: the FROM line, and no package token
\* between the install line and the && that follows it
ZeroPackageRecipe(recipe, base) ==
    LET L == splitlines(recipe) IN
    /\ L[2] = "    FROM " \o base
    /\ L[5] = "        apt-get install -y \\"
    /\ L[6] = "         && \\"

\* what follows an extraction that returns the empty inventory
EmptyInventoryBuilt ==
    /\ installed_packages = Some(<<>>)
    /\ pc = "build" => ZeroPackageRecipe(Get(dockerfile), Get(args).new_base_image)
    /\ pc \in {"finish", "exited"} =>
          /\ Count("images.build") = 1
          /\ Get(build_context).Dockerfile = Get(dockerfile)

\* C5 (as claimed): captured output with neither apt nor yum in it gives the
\* empty inventory, without raising or exiting, and the recipe with zero
\* packages is generated and built (stated for the runs whose container was
\* stopped and removed).
C5_NoMarkerEmptyInventory ==
    /\ Ended("remove", "ok")
    /\ pc # "parse_output"
    /\ NoMarker(Get(output).text)
    => EmptyInventoryBuilt

\* C5 (amended): the same, for captured output that decodes as UTF-8.
C5_DecodedNoMarkerEmptyInventory ==
    /\ Ended("remove", "ok")
    /\ pc # "parse_output"
    /\ Get(output).utf8
    /\ NoMarker(Get(output).text)
    => EmptyInventoryBuilt

\* a run whose probe printed a line without a marker, built from zero packages
C5_Witness ==
    /\ pc = "exited"
    /\ listing = <<5>>
    /\ Get(output).utf8
    /\ installed_packages = Some(<<>>)
    /\ Ended("images.build", "ok")

\* C6 (as claimed): the Extractor returns no inventory when neither package
\* manager is detected.
C6_UndetectedFails ==
    installed_packages # None => ~NoMarker(Get(output).text)

\* C6 (amended): the Extractor fails, the process ending with 1 and no
\* inventory, when the engine cannot create, start or exec the container; when
\* neither manager is detected in output that decodes, it returns an inventory,
\* the empty one.
C6_EngineFailureFails ==
    /\ Raised("containers.create") \/ Raised("start") \/ Raised("exec_run") =>
          /\ pc = "exited"
          /\ exit_code = Some(1)
          /\ installed_packages = None
          /\ Count("images.build") = 0
    /\ (/\ Ended("remove", "ok")
        /\ pc # "parse_output"
        /\ Get(output).utf8
        /\ NoMarker(Get(output).text)) => installed_packages = Some(<<>>)

\* the exec raised and the process ended
C6_Witness ==
    /\ pc = "exited"
    /\ Raised("exec_run")
    /\ installed_packages = None

\* the names of a list with one space between two of them, first to last
RECURSIVE SpaceJoined(_)
SpaceJoined(names) ==
    IF names = <<>> THEN ""
    ELSE IF Len(names) = 1 THEN names[1]
    ELSE SpaceJoined(SubSeq(names, 1, Len(names) - 1)) \o " " \o names[Len(names)]

\* the template of the specification, as it is printed there
SpecTemplate(base, packages) ==
    "FROM " \o base \o "\n"
    \o "\n"
    \o "RUN apt-get update && \\\n"
    \o "    apt-get install -y \\\n"
    \o "    " \o SpaceJoined(packages) \o " && \\\n"
    \o "    rm -rf /var/lib/apt/lists/*"

Template == SpecTemplate(Get(args).new_base_image, Get(installed_packages))

\* C7 (as claimed): the recipe generate_dockerfile returned is the template's
\* text, character for character (with or without a last line feed).
C7_TemplateExact ==
    pc = "build" => Get(dockerfile) \in {Template, Template \o "\n"}

\* C7 (amended): the recipe returned is an empty first line, then the template's lines,
\* each non-empty one indented by four more spaces, then only blank lines and
\* comment lines; generate_dockerfile returns it for every base and inventory.
C7_TemplateIndented ==
    pc = "build" =>
        LET L == splitlines(Get(dockerfile))
            T == splitlines(Template)
        IN  /\ Len(L) > Len(T) + 1
            /\ L[1] = ""
            /\ \A i \in 1..Len(T) :
                  L[i + 1] = IF T[i] = "" THEN "" ELSE "    " \o T[i]
            /\ \A i \in (Len(T) + 2)..Len(L) :
                  strip(L[i]) = "" \/ Char(strip(L[i]), 1) = "#"

\* a recipe generated for an inventory of two packages
C7_Witness ==
    /\ pc = "build"
    /\ installed_packages = Some(<<"apt", "curl">>)
    /\ dockerfile # None

\* C8 (as claimed): the space-joined inventory occurs exactly once in the
\* recipe generate_dockerfile returned; the recipe of the empty inventory holds the FROM line and an install
\* block with no package token.
C8_JoinedExactlyOnce ==
    pc = "build" =>
        IF Get(installed_packages) = <<>>
          THEN ZeroPackageRecipe(Get(dockerfile), Get(args).new_base_image)
          ELSE Occurrences(Get(dockerfile), SpaceJoined(Get(installed_packages))) = 1

\* C8 (amended): the space-joined inventory, in the order received, is the
\* whole of one line of the recipe between the indentation and the closing
\* ` && \`, the line after the install line; it may occur elsewhere too (the
\* inventory ["apt"] occurs in `apt-get`).  The empty inventory as claimed.
C8_JoinedInstallLine ==
    pc = "build" =>
        LET joined == SpaceJoined(Get(installed_packages))
            L == splitlines(Get(dockerfile))
        IN  /\ Occurrences(Get(dockerfile), "\n        " \o joined \o " && \\\n") = 1
            /\ L[5] = "        apt-get install -y \\"
            /\ L[6] = "        " \o joined \o " && \\"
            /\ Contains(Get(dockerfile), "FROM " \o Get(args).new_base_image \o "\n")
            /\ Get(installed_packages) = <<>> =>
                  ZeroPackageRecipe(Get(dockerfile), Get(args).new_base_image)

\* a recipe of a two-package inventory, joined in the order received
C8_Witness ==
    /\ pc = "build"
    /\ installed_packages = Some(<<"curl", "apt">>)
    /\ Occurrences(Get(dockerfile), "curl apt") = 1

\* line is text without the whitespace around it
IsStripped(line, text) ==
    /\ line = "" \/ (Char(line, 1) \notin Whitespace /\ Char(line, Len(line)) \notin Whitespace)
    /\ \E b \in 1..(Len(text) + 1) :
          /\ SubSeq(text, b, b + Len(line) - 1) = line
          /\ \A k \in 1..Len(text) :
                k < b \/ k >= b + Len(line) => Char(text, k) \in Whitespace

\* the message of a log record: its stream, if it has one
Message(log) == IF "stream" \in DOMAIN log THEN log.stream ELSE ""

\* C9: when the build raises, the process has ended with 1, no image handle
\* and no success message, after a single build; the log records a BuildError
\* carries were printed before, one line per record and in the engine's order,
\* right after the error line: each record's stream message without the
\* whitespace around it.
C9_BuildFailure ==
    Raised("images.build") =>
        /\ pc = "exited"
        /\ exit_code = Some(1)
        /\ new_image = None
        /\ ~Printed(success(NewTag))
        /\ Count("images.build") = 1
        /\ Ended("images.build", "BuildError") =>
              LET log == Get(engine_log)
                  at  == Len(stdout) - Len(log)
              IN  /\ at >= 1
                  /\ stdout[at] = "Error building the new image: BuildError"
                  /\ \A i \in 1..Len(log) : IsStripped(stdout[at + i], Message(log[i]))

\* a build that failed with three log records
C9_Witness ==
    /\ Ended("images.build", "BuildError")
    /\ Len(Get(engine_log)) = 3
    /\ pc = "exited"

\* the engine operations of a run that reaches the build, in order
PipelineOps ==
    <<"images.get", "containers.create", "put_archive", "start", "exec_run", "stop",
      "remove", "images.build">>

\* C10: every engine operation is invoked at most once and none after one that
\* raised; at most one container exists; the build is invoked only after the
\* extraction returned its inventory, the container stopped and removed, with
\* the recipe generated from that inventory and the requested tag; extract,
\* generate and build happen in this order.
C10_PipelineOnce ==
    /\ \A i, j \in 1..Len(calls) : i # j => calls[i].op # calls[j].op
    /\ \A i \in 1..(Len(calls) - 1) : calls[i].result = "ok"
    /\ Len(containers) <= 1
    /\ [i \in 1..Len(calls) |-> calls[i].op] = SubSeq(PipelineOps, 1, Len(calls))
    /\ dockerfile # None => installed_packages # None
    /\ build_context # None => dockerfile # None /\ Count("images.build") = 1
    /\ new_image # None => build_context # None
    /\ Count("images.build") = 1 =>
          /\ containers = <<"removed">>
          /\ installed_packages # None
          /\ Get(build_context) = [Dockerfile |-> Get(dockerfile), tag |-> NewTag]
    /\ pc = "build" =>
          LET L == splitlines(Get(dockerfile)) IN
          /\ L[2] = "    FROM " \o Get(args).new_base_image
          /\ L[6] = "        " \o SpaceJoined(Get(installed_packages)) \o " && \\"

\* a run that built the recipe of a one-package inventory
C10_Witness ==
    /\ pc = "exited"
    /\ Ended("images.build", "ok")
    /\ installed_packages = Some(<<"curl">>)
    /\ containers = <<"removed">>

====
